---- MODULE Spec2Model ----
(***************************************************************************)
(* ICMPv6 header parsing (src/src/icmpv6.rs).                              *)
(*                                                                         *)
(* Two entry points are modelled:                                          *)
(*   - From(raw): the conversion impl From<u16> for Icmpv6Code,            *)
(*   - parse_icmpv6_header(input): the nom streaming parser.               *)
(*                                                                         *)
(* Values of a Rust enum are records: [tag |-> variant] for a unit         *)
(* variant, [tag |-> variant, sub |-> inner variant] for a variant that    *)
(* wraps an inner enum and [tag |-> variant, raw |-> n] for a variant that *)
(* carries a u16.  An IResult is a record with kind "Ok" (fields rest,     *)
(* value), kind "Incomplete" (field needed) or kind "Error".               *)
(***************************************************************************)
EXTENDS Integers, Sequences, FiniteSets

VARIABLES raw,     \* the u16 whose bytes head the wire (type byte, code byte)
          code,    \* the result of the standalone call Icmpv6Code::from(raw)
          buf,     \* the bytes the caller has accumulated so far
          result   \* the result of the last parse_icmpv6_header(buf)

vars == <<raw, code, buf, result>>

\* The longest buffer the caller accumulates.
MaxLen == 9

U8  == 0..255
U16 == 0..65535

Min(S) == CHOOSE m \in S : \A n \in S : m <= n

(***************************************************************************)
(* The enums.                                                              *)
(***************************************************************************)
Unreachable ==
  {"NoRouteToDestination", "CommunicationAdministrativelyProhibited",
   "BeyondScopeOfSourceAddress", "AddressUnreachable", "PortUnreachable",
   "SourceAddressFailedPolicy", "RejectRouteToDestination",
   "ErrorInSourceRoutingHeader"}

TimeExceeded == {"TTL", "FragmentReassembly"}

ParameterProblem ==
  {"ErroneousHeaderField", "UnrecognizedNextHeader", "UnrecognizedIPv6Option"}

RouterRenumbering ==
  {"RouterRenumberingCommand", "RouterRenumberingResult", "SequenceNumberReset"}

NodeInformationQuery ==
  {"DataFieldContainsIPv6", "DataFieldContainsNameOrEmpty", "DataFieldContainsIPv4"}

NodeInformationResponse == {"Successful", "Refusal", "UnknownQType"}

DuplicateAddressRequestCodeSuffix ==
  {"DarMessage", "EdarMessageWith64BitRovrField", "EdarMessageWith128BitRovrField",
   "EdarMessageWith192BitRovrField", "EdarMessageWith256BitRovrField"}

DuplicateAddressConfirmationCodeSuffix ==
  {"DacMessage", "EdacMessageWith64BitRovrField", "EdacMessageWith128BitRovrField",
   "EdacMessageWith192BitRovrField", "EdacMessageWith256BitRovrField"}

ExtendedEchoRequest == {"NoError"}

ExtendedEchoReply ==
  {"NoError", "MalformedQuery", "NoSuchInterface", "NoSuchTableEntry",
   "MultipleInterfacesStatisfyQuery"}

\* The variants of Icmpv6Code that carry nothing.
UnitVariants ==
  {"PacketTooBig", "ReservedForError", "EchoRequest", "EchoReply",
   "MulticastListenerQuery", "MulticastListenerReport", "MulticastListenerDone",
   "RouterSolicitation", "RouterAdvertisement", "NeighborSolicitation",
   "NeighborAdvertisement", "RedirectMessage",
   "InverseNeighborDiscoverySolicitation", "InverseNeighborDiscoveryAdvertisement",
   "Version2MulticastListenerReport", "HomeAgentAddressDiscoveryRequestMessage",
   "HomeAgentAddressDiscoveryReplyMessage", "MobilePrefixSolicitation",
   "MobilePrefixAdvertisement", "CertificationPathSolicitation",
   "CertificationPathAdvertisement", "ExperimentalMobilityProtocolMessage",
   "MulticastRouterAdvertisement", "MulticastRouterSolicitation",
   "MulticastRouterTermination", "FMIPv6Messages", "RPLControlMessage",
   "ILNPv6LocatorUpdateMessage", "MPLControlMessage", "ReservedForInformational",
   "Reserved"}

\* The inner enum a wrapping variant of Icmpv6Code holds.
InnerEnum(tag) ==
  CASE tag = "DestinationUnreachable" -> Unreachable
    [] tag = "TimeExceeded" -> TimeExceeded
    [] tag = "ParameterProblem" -> ParameterProblem
    [] tag = "RouterRenumbering" -> RouterRenumbering
    [] tag = "NodeInformationQuery" -> NodeInformationQuery
    [] tag = "NodeInformationResponse" -> NodeInformationResponse
    [] tag = "DuplicateAddressRequestCodeSuffix" -> DuplicateAddressRequestCodeSuffix
    [] tag = "DuplicateAddressConfirmationCodeSuffix" -> DuplicateAddressConfirmationCodeSuffix
    [] tag = "ExtendedEchoRequest" -> ExtendedEchoRequest
    [] tag = "ExtendedEchoReply" -> ExtendedEchoReply
    [] OTHER -> {}

\* v is a value of the enum Icmpv6Code.
Icmpv6Code(v) ==
  \/ DOMAIN v = {"tag"} /\ v.tag \in UnitVariants
  \/ DOMAIN v = {"tag", "sub"} /\ v.sub \in InnerEnum(v.tag)
  \/ DOMAIN v = {"tag", "raw"}
       /\ v.tag \in {"PrivateExperimentation", "Other"}
       /\ v.raw \in U16

\* v is a value of the enum Icmpv6Data.
Icmpv6Data(v) ==
  \/ DOMAIN v = {"tag"} /\ v.tag = "None"
  \/ DOMAIN v = {"tag", "identifier", "sequence"}
       /\ v.tag \in {"EchoRequest", "EchoReply"}
       /\ v.identifier \in U16
       /\ v.sequence \in U16

\* v is a value of the struct Icmpv6Header.
Icmpv6Header(v) ==
  /\ DOMAIN v = {"code", "checksum", "data"}
  /\ Icmpv6Code(v.code)
  /\ v.checksum \in U16
  /\ Icmpv6Data(v.data)

(***************************************************************************)
(* impl From<u16> for Icmpv6Code: the match on the type byte, one row per  *)
(* arm in source order.  kind "unit": the arm returns the variant whatever *)
(* the code byte; kind "sub": the arm matches on the code byte; kind       *)
(* "raw": the arm returns PrivateExperimentation(raw).                     *)
(***************************************************************************)
OuterArms ==
  << [t |-> 1,   kind |-> "sub",  tag |-> "DestinationUnreachable"],               \* 0x01
     [t |-> 2,   kind |-> "unit", tag |-> "PacketTooBig"],                         \* 0x02
     [t |-> 3,   kind |-> "sub",  tag |-> "TimeExceeded"],                         \* 0x03
     [t |-> 4,   kind |-> "sub",  tag |-> "ParameterProblem"],                     \* 0x04
     [t |-> 100, kind |-> "raw",  tag |-> "PrivateExperimentation"],               \* 0x64
     [t |-> 101, kind |-> "raw",  tag |-> "PrivateExperimentation"],               \* 0x65
     [t |-> 127, kind |-> "unit", tag |-> "ReservedForError"],                     \* 0x7F
     [t |-> 128, kind |-> "unit", tag |-> "EchoRequest"],                          \* 0x80
     [t |-> 129, kind |-> "unit", tag |-> "EchoReply"],                            \* 0x81
     [t |-> 130, kind |-> "unit", tag |-> "MulticastListenerQuery"],               \* 0x82
     [t |-> 131, kind |-> "unit", tag |-> "MulticastListenerReport"],              \* 0x83
     [t |-> 132, kind |-> "unit", tag |-> "MulticastListenerDone"],                \* 0x84
     [t |-> 133, kind |-> "unit", tag |-> "RouterSolicitation"],                   \* 0x85
     [t |-> 134, kind |-> "unit", tag |-> "RouterAdvertisement"],                  \* 0x86
     [t |-> 135, kind |-> "unit", tag |-> "NeighborSolicitation"],                 \* 0x87
     [t |-> 136, kind |-> "unit", tag |-> "NeighborAdvertisement"],                \* 0x88
     [t |-> 137, kind |-> "unit", tag |-> "RedirectMessage"],                      \* 0x89
     [t |-> 138, kind |-> "sub",  tag |-> "RouterRenumbering"],                    \* 0x8A
     [t |-> 139, kind |-> "sub",  tag |-> "NodeInformationQuery"],                 \* 0x8B
     [t |-> 140, kind |-> "sub",  tag |-> "NodeInformationResponse"],              \* 0x8C
     [t |-> 141, kind |-> "unit", tag |-> "InverseNeighborDiscoverySolicitation"], \* 0x8D
     [t |-> 142, kind |-> "unit", tag |-> "InverseNeighborDiscoveryAdvertisement"],\* 0x8E
     [t |-> 143, kind |-> "unit", tag |-> "Version2MulticastListenerReport"],      \* 0x8F
     [t |-> 144, kind |-> "unit", tag |-> "HomeAgentAddressDiscoveryRequestMessage"], \* 0x90
     [t |-> 145, kind |-> "unit", tag |-> "HomeAgentAddressDiscoveryReplyMessage"],   \* 0x91
     [t |-> 146, kind |-> "unit", tag |-> "MobilePrefixSolicitation"],             \* 0x92
     [t |-> 147, kind |-> "unit", tag |-> "MobilePrefixAdvertisement"],            \* 0x93
     [t |-> 148, kind |-> "unit", tag |-> "CertificationPathSolicitation"],        \* 0x94
     [t |-> 149, kind |-> "unit", tag |-> "CertificationPathAdvertisement"],       \* 0x95
     [t |-> 150, kind |-> "unit", tag |-> "ExperimentalMobilityProtocolMessage"],  \* 0x96
     [t |-> 151, kind |-> "unit", tag |-> "MulticastRouterAdvertisement"],         \* 0x97
     [t |-> 152, kind |-> "unit", tag |-> "MulticastRouterSolicitation"],          \* 0x98
     [t |-> 153, kind |-> "unit", tag |-> "MulticastRouterTermination"],           \* 0x99
     [t |-> 154, kind |-> "unit", tag |-> "FMIPv6Messages"],                       \* 0x9A
     [t |-> 155, kind |-> "unit", tag |-> "RPLControlMessage"],                    \* 0x9B
     [t |-> 156, kind |-> "unit", tag |-> "ILNPv6LocatorUpdateMessage"],           \* 0x9C
     [t |-> 157, kind |-> "sub",  tag |-> "DuplicateAddressRequestCodeSuffix"],    \* 0x9D
     [t |-> 158, kind |-> "sub",  tag |-> "DuplicateAddressConfirmationCodeSuffix"], \* 0x9E
     [t |-> 159, kind |-> "unit", tag |-> "MPLControlMessage"],                    \* 0x9F
     [t |-> 160, kind |-> "sub",  tag |-> "ExtendedEchoRequest"],                  \* 0xA0
     [t |-> 161, kind |-> "sub",  tag |-> "ExtendedEchoReply"],                    \* 0xA1
     [t |-> 200, kind |-> "raw",  tag |-> "PrivateExperimentation"],               \* 0xC8
     [t |-> 201, kind |-> "raw",  tag |-> "PrivateExperimentation"],               \* 0xC9
     [t |-> 255, kind |-> "unit", tag |-> "ReservedForInformational"] >>           \* 0xFF

\* The inner match on the code byte of a "sub" arm: <<code byte, inner variant>>
\* per arm, in source order.
InnerArms(tag) ==
  CASE tag = "DestinationUnreachable" ->
         << <<0, "NoRouteToDestination">>,
            <<1, "CommunicationAdministrativelyProhibited">>,
            <<2, "BeyondScopeOfSourceAddress">>,
            <<3, "AddressUnreachable">>,
            <<4, "PortUnreachable">>,
            <<5, "SourceAddressFailedPolicy">>,
            <<6, "RejectRouteToDestination">>,
            <<7, "ErrorInSourceRoutingHeader">> >>
    [] tag = "TimeExceeded" ->
         << <<0, "TTL">>, <<1, "FragmentReassembly">> >>
    [] tag = "ParameterProblem" ->
         << <<0, "ErroneousHeaderField">>,
            <<1, "UnrecognizedNextHeader">>,
            <<2, "UnrecognizedIPv6Option">> >>
    [] tag = "RouterRenumbering" ->
         << <<0, "RouterRenumberingCommand">>,
            <<1, "RouterRenumberingResult">>,
            <<255, "SequenceNumberReset">> >>
    [] tag = "NodeInformationQuery" ->
         << <<0, "DataFieldContainsIPv6">>,
            <<1, "DataFieldContainsNameOrEmpty">>,
            <<2, "DataFieldContainsIPv4">> >>
    [] tag = "NodeInformationResponse" ->
         << <<0, "Successful">>, <<1, "Refusal">>, <<2, "UnknownQType">> >>
    [] tag = "DuplicateAddressRequestCodeSuffix" ->
         << <<0, "DarMessage">>,
            <<1, "EdarMessageWith64BitRovrField">>,
            <<2, "EdarMessageWith128BitRovrField">>,
            <<3, "EdarMessageWith192BitRovrField">>,
            <<4, "EdarMessageWith256BitRovrField">> >>
    [] tag = "DuplicateAddressConfirmationCodeSuffix" ->
         << <<0, "DacMessage">>,
            <<1, "EdacMessageWith64BitRovrField">>,
            <<2, "EdacMessageWith128BitRovrField">>,
            <<3, "EdacMessageWith192BitRovrField">>,
            <<4, "EdacMessageWith256BitRovrField">> >>
    [] tag = "ExtendedEchoRequest" ->
         << <<0, "NoError">> >>
    [] tag = "ExtendedEchoReply" ->
         << <<0, "NoError">>,
            <<1, "MalformedQuery">>,
            <<2, "NoSuchInterface">>,
            <<3, "NoSuchTableEntry">>,
            <<4, "MultipleInterfacesStatisfyQuery">> >>
    [] OTHER -> << >>

\* The arms of the outer match whose pattern is the type byte t.
OuterHits(t) == {i \in DOMAIN OuterArms : OuterArms[i].t = t}

\* The arms of the inner match of variant tag whose pattern is the code byte c.
InnerHits(tag, c) == {j \in DOMAIN InnerArms(tag) : InnerArms(tag)[j][1] = c}

\* A big-endian byte pair read the other way round.
to_le_bytes(n) == <<n % 256, n \div 256>>

\* let [t, c] = raw.to_be_bytes()
to_be_bytes(n) == <<n \div 256, n % 256>>

\* The last arm of the outer match panicking instead of returning a value.
OuterFallback_panic(n) == [tag |-> "panic"]

\* The last arm of the outer match returning the bare Reserved variant.
OuterFallback_reserved(n) == [tag |-> "Reserved"]

\* The last arm of the outer match: _ => Self::Other(raw)
OuterFallback(n) == [tag |-> "Other", raw |-> n]

\* The last arm of an inner match returning the first inner variant as a default.
InnerFallback_default(tag, n) == [tag |-> tag, sub |-> InnerArms(tag)[1][2]]

\* The last arm of every inner match: _ => Self::Other(raw)
InnerFallback(tag, n) == [tag |-> "Other", raw |-> n]

\* An experimental arm carrying the type byte alone (the code byte zeroed).
ExperimentalArm_type_only(n) ==
  [tag |-> "PrivateExperimentation", raw |-> (n \div 256) * 256]

\* The arms 0x64, 0x65, 0xC8, 0xC9: Self::PrivateExperimentation(raw)
ExperimentalArm(n) == [tag |-> "PrivateExperimentation", raw |-> n]

\* The outer match taken on the whole of raw, so that a "unit" arm holds for the
\* code byte 0 alone (0x8000 => Self::EchoRequest) and the rest falls through.
ArmBody_code0(arm, n, c) ==
  CASE arm.kind = "unit" -> IF c = 0 THEN [tag |-> arm.tag] ELSE OuterFallback(n)
    [] arm.kind = "raw"  -> ExperimentalArm(n)
    [] arm.kind = "sub"  ->
         IF InnerHits(arm.tag, c) = {}
           THEN InnerFallback(arm.tag, n)
           ELSE [tag |-> arm.tag,
                 sub |-> InnerArms(arm.tag)[Min(InnerHits(arm.tag, c))][2]]

\* The value the matched outer arm returns for raw value n with code byte c.
ArmBody(arm, n, c) ==
  CASE arm.kind = "unit" -> [tag |-> arm.tag]
    [] arm.kind = "raw"  -> ExperimentalArm(n)
    [] arm.kind = "sub"  ->
         IF InnerHits(arm.tag, c) = {}
           THEN InnerFallback(arm.tag, n)
           ELSE [tag |-> arm.tag,
                 sub |-> InnerArms(arm.tag)[Min(InnerHits(arm.tag, c))][2]]

\* Icmpv6Code::from(raw): the first arm that matches decides.
From(n) ==
  LET t == to_be_bytes(n)[1]
      c == to_be_bytes(n)[2]
  IN  IF OuterHits(t) = {}
        THEN OuterFallback(n)
        ELSE ArmBody(OuterArms[Min(OuterHits(t))], n, c)

(***************************************************************************)
(* The nom parsers.  An input is a sequence of bytes.                      *)
(***************************************************************************)
Incomplete(n) == [kind |-> "Incomplete", needed |-> n]

Ok(rest, value) == [kind |-> "Ok", rest |-> rest, value |-> value]

\* The two bytes read least significant byte first.
le_u16(input) ==
  IF Len(input) < 2
    THEN Incomplete(2 - Len(input))
    ELSE Ok(SubSeq(input, 3, Len(input)), input[2] * 256 + input[1])

\* number::complete::be_u16: a short input is a hard error.
be_u16_complete(input) ==
  IF Len(input) < 2
    THEN [kind |-> "Error"]
    ELSE Ok(SubSeq(input, 3, Len(input)), input[1] * 256 + input[2])

\* number::streaming::be_u16: a short input asks for the bytes that miss.
be_u16(input) ==
  IF Len(input) < 2
    THEN Incomplete(2 - Len(input))
    ELSE Ok(SubSeq(input, 3, Len(input)), input[1] * 256 + input[2])

\* fn parse_icmpv6_code: be_u16(input)?, then code.into()
parse_icmpv6_code(input) ==
  LET r == be_u16(input)
  IN  IF r.kind # "Ok" THEN r ELSE Ok(r.rest, From(r.value))

\* The identifier and the sequence number of an echo message: two be_u16, each
\* with ?, wrapped in the variant tag of Icmpv6Data.
parse_echo(tag, input) ==
  LET i == be_u16(input)
  IN  IF i.kind # "Ok" THEN i
      ELSE LET s == be_u16(i.rest)
           IN  IF s.kind # "Ok" THEN s
               ELSE Ok(s.rest, [tag |-> tag, identifier |-> i.value,
                                sequence |-> s.value])

\* fn parse_echo_request
parse_echo_request(input) == parse_echo("EchoRequest", input)

\* fn parse_echo_reply
parse_echo_reply(input) == parse_echo("EchoReply", input)

\* The match with an arm that reads an echo body for the extended echo codes too.
parse_data_extended(c, input) ==
  CASE c.tag \in {"EchoRequest", "ExtendedEchoRequest"} -> parse_echo_request(input)
    [] c.tag \in {"EchoReply", "ExtendedEchoReply"} -> parse_echo_reply(input)
    [] OTHER -> Ok(input, [tag |-> "None"])

\* The match with the echo arms falling back to no data when the body is short.
parse_data_optional(c, input) ==
  LET r == CASE c = [tag |-> "EchoRequest"] -> parse_echo_request(input)
             [] c = [tag |-> "EchoReply"] -> parse_echo_reply(input)
             [] OTHER -> Ok(input, [tag |-> "None"])
  IN  IF r.kind = "Ok" THEN r ELSE Ok(input, [tag |-> "None"])

\* The match on code in parse_icmpv6_header: the echo arms apply ? to their
\* parser, every other code yields (input, Icmpv6Data::None).
parse_data(c, input) ==
  CASE c = [tag |-> "EchoRequest"] -> parse_echo_request(input)
    [] c = [tag |-> "EchoReply"] -> parse_echo_reply(input)
    [] OTHER -> Ok(input, [tag |-> "None"])

\* pub fn parse_icmpv6_header
parse_icmpv6_header(input) ==
  LET c == parse_icmpv6_code(input)
  IN  IF c.kind # "Ok" THEN c
      ELSE LET k == be_u16(c.rest)
           IN  IF k.kind # "Ok" THEN k
               ELSE LET d == parse_data(c.value, k.rest)
                    IN  IF d.kind # "Ok" THEN d
                        ELSE Ok(d.rest, [code |-> c.value,
                                         checksum |-> k.value,
                                         data |-> d.value])

(***************************************************************************)
(* The callers.  The wire carries the two bytes of raw and then the bytes  *)
(* of the echo fixture of tests::icmpv6_ping_request: checksum fd 00,      *)
(* identifier 00 01, sequence 00 1a and the head of the echo data.         *)
(***************************************************************************)
Fixture == <<253, 0, 0, 1, 0, 26, 171, 17, 43, 98, 0, 0, 0, 0, 7, 128>>

Wire(n) == to_be_bytes(n) \o Fixture

NoCode == [tag |-> "NoCode"]

NoResult == [kind |-> "NoCall"]

Init ==
  /\ raw \in U16
  /\ code = NoCode
  /\ buf = << >>
  /\ result = NoResult

\* A standalone conversion: Icmpv6Code::from(raw).
CallFrom ==
  /\ code = NoCode
  /\ code' = From(raw)
  /\ UNCHANGED <<raw, buf, result>>

\* The caller appends the next byte of the wire to its buffer and calls
\* parse_icmpv6_header on the whole buffer again.
Receive ==
  /\ Len(buf) < MaxLen
  /\ buf' = Append(buf, Wire(raw)[Len(buf) + 1])
  /\ result' = parse_icmpv6_header(buf')
  /\ UNCHANGED <<raw, code>>

Next == CallFrom \/ Receive

\* Both entry points, in any order.
Spec == Init /\ [][Next]_vars

\* The conversion alone, on each of the 65,536 values of raw.
SpecFrom == Init /\ [][CallFrom]_vars

\* The parser alone, on the growing prefixes of each of the 65,536 wires.
SpecHeader == Init /\ [][Receive]_vars

(***************************************************************************)
(* The properties.  TypeByte and CodeByte are the high and the low 8 bits  *)
(* of raw.                                                                 *)
(***************************************************************************)
TypeByte == raw \div 256

CodeByte == raw % 256

\* The type bytes whose arm matches on the code byte, with the code bytes each
\* registers.
SubTable(t) ==
  CASE t = 1   -> 0..7
    [] t = 3   -> 0..1
    [] t = 4   -> 0..2
    [] t = 138 -> {0, 1, 255}
    [] t = 139 -> 0..2
    [] t = 140 -> 0..2
    [] t = 157 -> 0..4
    [] t = 158 -> 0..4
    [] t = 160 -> {0}
    [] t = 161 -> 0..4
    [] OTHER   -> {}

SubdividingTypes == {1, 3, 4, 138, 139, 140, 157, 158, 160, 161}

UnregisteredTypes == {0} \cup (5..99) \cup (102..126) \cup (162..199) \cup (202..254)

CodeFreeTypes == {2} \cup (128..137) \cup (141..156) \cup {159} \cup {127, 255}

ExperimentalTypes == {100, 101, 200, 201}

\* The bytes parse_icmpv6_header needs of the buffer: 8 for an echo request or
\* reply, 4 otherwise.
Required(b) == IF Len(b) >= 1 /\ b[1] \in {128, 129} THEN 8 ELSE 4

\* C1: classification is total. Every conversion returns a value of the enum
\* Icmpv6Code, never a failure, and the type byte (and, inside a subdividing
\* arm, the code byte) is the pattern of at most one arm of the match.
C1_Total ==
  code # NoCode =>
    /\ Icmpv6Code(code)
    /\ Cardinality(OuterHits(TypeByte)) <= 1
    /\ \A i \in OuterHits(TypeByte) :
         Cardinality(InnerHits(OuterArms[i].tag, CodeByte)) <= 1

C1_Witness == code = [tag |-> "Other", raw |-> 65535 - 256] /\ raw = 65535 - 256

\* C2: parse_icmpv6_header has two outcomes, decided by the length of the input:
\* Incomplete when the buffer is shorter than the header needs (4 bytes, 8 when
\* the type byte is 0x80 or 0x81), a well-formed Icmpv6Header otherwise; never
\* an error.
C2_TwoOutcomes ==
  result # NoResult =>
    /\ result.kind \in {"Incomplete", "Ok"}
    /\ result.kind = "Incomplete" <=> Len(buf) < Required(buf)
    /\ result.kind = "Ok" => Icmpv6Header(result.value)

C2_Witness == Len(buf) = 7 /\ buf[1] = 128 /\ result.kind = "Incomplete"

\* C3: an input of at least 8 bytes whose type byte is 0x80 (0x81) decodes,
\* whatever the code byte, to code EchoRequest (EchoReply), the big-endian
\* checksum of bytes 2-3, the identifier of bytes 4-5 and the sequence of bytes
\* 6-7, big-endian, and leaves the input from byte 8 on as the remainder.
C3_Echo ==
  (Len(buf) >= 8 /\ buf[1] \in {128, 129}) =>
    LET name == IF buf[1] = 128 THEN "EchoRequest" ELSE "EchoReply"
    IN  /\ result.kind = "Ok"
        /\ result.value =
             [code |-> [tag |-> name],
              checksum |-> buf[3] * 256 + buf[4],
              data |-> [tag |-> name,
                        identifier |-> buf[5] * 256 + buf[6],
                        sequence |-> buf[7] * 256 + buf[8]]]
        /\ result.rest = SubSeq(buf, 9, Len(buf))

C3_Witness ==
  /\ Len(buf) = 9 /\ buf[1] = 129 /\ buf[2] = 255
  /\ result.kind = "Ok" /\ result.value.data.sequence = 26

\* C4: an input of at least 4 bytes whose code is neither EchoRequest nor
\* EchoReply decodes with data None and the input from byte 4 on as the
\* remainder; data is EchoRequest (EchoReply) only with code EchoRequest
\* (EchoReply).
C4_NonEcho ==
  /\ (Len(buf) >= 4 /\ From(buf[1] * 256 + buf[2]).tag \notin {"EchoRequest", "EchoReply"}) =>
       /\ result.kind = "Ok"
       /\ result.value.code = From(buf[1] * 256 + buf[2])
       /\ result.value.data = [tag |-> "None"]
       /\ result.rest = SubSeq(buf, 5, Len(buf))
  /\ result.kind = "Ok" =>
       /\ result.value.data.tag = "EchoRequest" => result.value.code = [tag |-> "EchoRequest"]
       /\ result.value.data.tag = "EchoReply" => result.value.code = [tag |-> "EchoReply"]

C4_Witness ==
  /\ Len(buf) = 6 /\ result.kind = "Ok"
  /\ result.value.code = [tag |-> "ExtendedEchoRequest", sub |-> "NoError"]
  /\ result.value.data = [tag |-> "None"]

\* C5: a (type, code) pair outside the registry converts to Other(raw) with the
\* whole of raw: a subdividing type with a code byte outside its sub-table, and
\* an unregistered type. A code byte inside the sub-table gives the wrapped
\* sub-case of the type.
C5_Other ==
  code # NoCode =>
    /\ (TypeByte \in SubdividingTypes /\ CodeByte \notin SubTable(TypeByte)) =>
         code = [tag |-> "Other", raw |-> raw]
    /\ TypeByte \in UnregisteredTypes => code = [tag |-> "Other", raw |-> raw]
    /\ (TypeByte \in SubdividingTypes /\ CodeByte \in SubTable(TypeByte)) =>
         /\ DOMAIN code = {"tag", "sub"}
         /\ code.tag # "Other"
         /\ code.sub \in InnerEnum(code.tag)
         /\ \A k \in U8 \ {CodeByte} :
              From(TypeByte * 256 + k).tag \in {code.tag, "Other"}

C5_Witness == raw = 511 /\ code = [tag |-> "Other", raw |-> 511]

\* C6: for a type byte whose meaning does not depend on the code byte, and for
\* 0x7F and 0xFF, the conversion returns the same payload-free variant for all
\* 256 code bytes; 0x7F gives ReservedForError, 0xFF ReservedForInformational.
C6_CodeFree ==
  (code # NoCode /\ TypeByte \in CodeFreeTypes) =>
    /\ DOMAIN code = {"tag"}
    /\ \A k \in U8 : From(TypeByte * 256 + k) = code
    /\ TypeByte = 127 => code = [tag |-> "ReservedForError"]
    /\ TypeByte = 255 => code = [tag |-> "ReservedForInformational"]
    /\ TypeByte = 2 => code = [tag |-> "PacketTooBig"]

C6_Witness == TypeByte = 133 /\ CodeByte = 7 /\ code = [tag |-> "RouterSolicitation"]

\* C7: an experimental type byte (0x64, 0x65, 0xC8, 0xC9) with any code byte
\* converts to PrivateExperimentation(raw), type byte high, code byte low.
C7_Private ==
  (code # NoCode /\ TypeByte \in ExperimentalTypes) =>
    code = [tag |-> "PrivateExperimentation", raw |-> TypeByte * 256 + CodeByte]

C7_Witness ==
  TypeByte = 201 /\ CodeByte = 3 /\ code = [tag |-> "PrivateExperimentation", raw |-> 51459]

\* C8 as stated: for an experimental type byte the conversion ignores the code
\* byte, the result is the same for every code byte.
C8_IgnoresCode ==
  (code # NoCode /\ TypeByte \in ExperimentalTypes) =>
    \A k \in U8 : From(TypeByte * 256 + k) = code

\* C8 as amended: for an experimental type byte the variant is
\* PrivateExperimentation for every code byte, and the carried value is the whole
\* of raw, code byte included, so two code bytes never give the same result.
C8_CarriesCode ==
  (code # NoCode /\ TypeByte \in ExperimentalTypes) =>
    /\ code.tag = "PrivateExperimentation"
    /\ code.raw % 256 = CodeByte
    /\ \A k \in U8 :
         /\ From(TypeByte * 256 + k).tag = code.tag
         /\ From(TypeByte * 256 + k) = code <=> k = CodeByte

C8_Witness == TypeByte = 100 /\ CodeByte = 1 /\ code.tag = "PrivateExperimentation"

\* C9: while the caller appends to its buffer and parses it again, every call
\* on a buffer shorter than the header needs returns Incomplete, the call at
\* that length (8 at the latest) returns a header, and a call after that returns
\* the same header with the remainder grown by the bytes appended.
C9_Stream ==
  [][buf' # buf =>
       /\ Len(buf') < Required(buf') => result'.kind = "Incomplete"
       /\ Len(buf') >= Required(buf') => result'.kind = "Ok"
       /\ Len(buf') >= 8 => result'.kind = "Ok"
       /\ result.kind = "Ok" =>
            /\ result'.kind = "Ok"
            /\ result'.value = result.value
            /\ result'.rest = result.rest \o SubSeq(buf', Len(buf) + 1, Len(buf'))]_vars

C9_Witness ==
  Len(buf) = 9 /\ buf[1] = 1 /\ result.kind = "Ok" /\ Len(result.rest) = 5

\* C10: the bare variant Reserved is never returned: no conversion gives it, no
\* header holds it, and the reserved type bytes 0x7F and 0xFF give
\* ReservedForError and ReservedForInformational.
C10_NoReserved ==
  /\ code # NoCode =>
       /\ code.tag # "Reserved"
       /\ code.tag = "ReservedForError" <=> TypeByte = 127
       /\ code.tag = "ReservedForInformational" <=> TypeByte = 255
  /\ result.kind = "Ok" => result.value.code.tag # "Reserved"

C10_Witness ==
  /\ code = [tag |-> "ReservedForInformational"]
  /\ result.kind = "Ok" /\ result.value.code = code

====
